---------------------------- MODULE Spec2Model ----------------------------
(***************************************************************************)
(* Model of conv_net_sentence.py: the sentence encoder (sent2indices),    *)
(* the corpus reader (read_corpus), the k-fold splitter (kfold), and a    *)
(* run of the file in inference mode and in training mode.                *)
(*                                                                         *)
(* A Python str is modelled as a sequence of one-character strings, a     *)
(* list / numpy vector as a sequence, a dict as a function.               *)
(***************************************************************************)
EXTENDS Integers, Sequences, FiniteSets, TLC

VARIABLES
    pc,          \* position of the running program
    \* ---- sent2indices / read_corpus arguments and results
    sent,        \* the token sequence handed to sent2indices
    word_index,  \* dict word -> index
    max_l,       \* max sentence length
    pad,         \* value bound to the name pad
    x,           \* the list returned by sent2indices
    file,        \* lines of the input file, each with its line terminator
    lower,       \* -lower
    textField,   \* -textField
    corpus,      \* read_corpus: rows appended so far
    line_no,     \* read_corpus: number of lines consumed
    \* ---- a run of the file
    tagField,    \* -tagField
    labels,      \* label strings by class index
    results,     \* the predictions of line 143
    stdout,      \* characters written to sys.stdout
    \* ---- kfold generator frame
    kpc,         \* where the call of kfold stands
    n_samples, folds,
    yielded,     \* the items the generator has yielded, in order
    \* ---- command line of a training run
    args_train,    \* -train
    args_filters,  \* -filters
    args_cv        \* -cv

encVars  == <<sent, word_index, max_l, pad, x>>
fileVars == <<file, lower, textField, corpus, line_no>>
kfVars   == <<kpc, n_samples, folds, yielded>>
predVars == <<tagField, labels, results, stdout>>
trainVars == <<args_train, args_filters, args_cv>>
vars     == <<pc, encVars, fileVars, predVars, kfVars, trainVars>>

---------------------------------------------------------------------------
(* Bounds of the explored inputs.                                          *)
MaxSentLen == 3      \* tokens in a sentence handed to sent2indices
MaxIdx     == 2      \* largest word index of a vocabulary
MaxL       == 3      \* largest max_l
MaxPad     == 2      \* largest pad
MaxN       == 9      \* largest n_samples handed to kfold
MaxFolds   == 5      \* largest folds handed to kfold
MaxTextLen == 3      \* characters in the text field of a generated record
MaxLines   == 2      \* lines of a generated input file
MaxArgCv   == 3      \* largest -cv

Max(a, b) == IF a >= b THEN a ELSE b
Min(a, b) == IF a <= b THEN a ELSE b

\* [0] * n
Zeros(n) == [i \in 1..Max(0, n) |-> 0]

\* All sequences over S of length at most n.
SeqsUpTo(S, n) == UNION {[1..k -> S] : k \in 0..n}

\* The words of the explored vocabularies.
Words == {<<"a">>, <<"b">>, <<"a", "b">>}

\* The explored dicts word -> index: every injective map from a set of
\* words to indices (word_index = {w:i for i,w in enumerate(words)}).
Vocabularies ==
    UNION {{f \in [S -> 0..MaxIdx] :
               \A v, w \in S : f[v] = f[w] => v = w} : S \in SUBSET Words}

---------------------------------------------------------------------------
(* sent2indices, lines 23-41.                                              *)

\* The for loop of lines 33-38, started with list xs on the remaining words.
RECURSIVE AppendWords(_, _, _, _)
AppendWords(xs, ws, widx, maxl) ==
    IF ws = <<>> THEN xs
    ELSE IF Head(ws) \in DOMAIN widx
         THEN IF Len(xs) < maxl
              THEN AppendWords(Append(xs, widx[Head(ws)]), Tail(ws), widx, maxl)
              ELSE xs                                   \* break
         ELSE AppendWords(xs, Tail(ws), widx, maxl)

\* A slip in the right padding: one pad counted instead of two.
sent2indices_rpad1(s, widx, maxl, p) ==
    LET xs   == AppendWords(Zeros(p), s, widx, maxl)
        rpad == Zeros(Max(0, maxl + p - Len(xs)))
    IN  xs \o rpad

sent2indices(s, widx, maxl, p) ==
    LET xs   == AppendWords(Zeros(p), s, widx, maxl)
        rpad == Zeros(Max(0, maxl + 2 * p - Len(xs)))
    IN  xs \o rpad

---------------------------------------------------------------------------
(* kfold, lines 76-99.  Line 87 is                                        *)
(*     indices = np.arange(n_samples, dtype=np.int32))                     *)
(* with a closing parenthesis that nothing opened: the definition is not   *)
(* valid Python.  The compiler rejects it with a SyntaxError, so no        *)
(* statement of the body runs and no item is ever yielded.                 *)

\* What a call kfold(n, k) comes to: the error that ends it and the items
\* it has yielded by then.
kfold(n, k) == [error |-> "SyntaxError", items |-> <<>>]

\* kfold(n_samples, folds) is called and consumed.
Kfold ==
    /\ kpc = "start"
    /\ kpc' = kfold(n_samples, folds).error
    /\ yielded' = kfold(n_samples, folds).items
    /\ UNCHANGED <<n_samples, folds>>

---------------------------------------------------------------------------
(* read_corpus, lines 44-64, and the str methods it uses.                  *)

\* string.whitespace, as far as the explored characters go.
IsSpace(c) == c \in {" ", "\t", "\n"}

\* str.lower on the explored characters.
LowerChar(c) == IF c = "A" THEN "a" ELSE IF c = "B" THEN "b" ELSE c
Lower(s) == [i \in 1..Len(s) |-> LowerChar(s[i])]

\* str.strip(): leading and trailing whitespace removed.
RECURSIVE LStrip(_)
LStrip(s) == IF s # <<>> /\ IsSpace(Head(s)) THEN LStrip(Tail(s)) ELSE s
RECURSIVE RStrip(_)
RStrip(s) == IF s # <<>> /\ IsSpace(s[Len(s)])
             THEN RStrip(SubSeq(s, 1, Len(s) - 1)) ELSE s
Strip(s) == RStrip(LStrip(s))

\* str.split(sep) for a one-character sep: cut at every sep, empty pieces kept.
RECURSIVE SplitOn(_, _)
SplitOn(s, sep) ==
    IF \A i \in 1..Len(s) : s[i] # sep THEN <<s>>
    ELSE LET i == CHOOSE k \in 1..Len(s) :
                      s[k] = sep /\ \A j \in 1..(k - 1) : s[j] # sep
         IN  <<SubSeq(s, 1, i - 1)>> \o SplitOn(SubSeq(s, i + 1, Len(s)), sep)

\* "sep".join(parts)
RECURSIVE Join(_, _)
Join(parts, sep) ==
    IF parts = <<>> THEN <<>>
    ELSE IF Len(parts) = 1 THEN parts[1]
    ELSE parts[1] \o <<sep>> \o Join(Tail(parts), sep)

\* What  for word in text  visits when text is a str: its characters, each
\* a str of length one.
CharsOf(text) == [i \in 1..Len(text) |-> <<text[i]>>]

\* Line 58: fields = line.strip().split("\t")
FieldsOf(line) == SplitOn(Strip(line), "\t")

\* Lines 59-62 for one line whose text field exists: the str text itself is
\* handed to sent2indices.
EncodeText(fields, widx, maxl, p, low, tf) ==
    LET text == IF low THEN Lower(fields[tf + 1]) ELSE fields[tf + 1]
    IN  sent2indices(CharsOf(text), widx, maxl, p)

\* One pass of the loop of lines 57-63.
ReadLine ==
    /\ pc = "read_corpus"
    /\ line_no < Len(file)
    /\ LET fields == FieldsOf(file[line_no + 1])
       IN  IF textField + 1 > Len(fields)
           THEN /\ pc' = "IndexError"                     \* line 59
                /\ UNCHANGED <<corpus, line_no>>
           ELSE /\ corpus' = Append(corpus,
                       EncodeText(fields, word_index, max_l, pad, lower, textField))
                /\ line_no' = line_no + 1
                /\ pc' = pc
    /\ UNCHANGED <<file, lower, textField>>

\* Line 64: the loop is over, the rows are returned as an array.
ReadReturn ==
    /\ pc = "read_corpus"
    /\ line_no = Len(file)
    /\ pc' = "corpus_read"
    /\ UNCHANGED fileVars

---------------------------------------------------------------------------
(* A run of the file,                                                      *)
(*     conv_net_sentence.py model input [-train -vectors v ...]            *)
(* Python compiles the whole file before it runs its first statement, and  *)
(* line 87 is not valid Python: in either mode the run ends in SyntaxError *)
(* with no statement run, so no import done, no model file read or         *)
(* written, no prediction made, nothing printed.                           *)
CompileFile ==
    /\ pc = "compile"
    /\ pc' = "SyntaxError"
    /\ UNCHANGED <<encVars, fileVars, predVars, kfVars, trainVars>>

---------------------------------------------------------------------------
(* Placeholders for the parts of the state a specification does not use.   *)
NoFile  == /\ file = <<>> /\ lower = FALSE /\ textField = 0
           /\ corpus = <<>> /\ line_no = 0
NoPredict == /\ tagField = 0 /\ labels = <<>> /\ results = <<>>
             /\ stdout = <<>>
NoTrain == /\ args_train = FALSE /\ args_filters = <<>> /\ args_cv = 0
NoKfold == /\ kpc = "none" /\ n_samples = 0 /\ folds = 0 /\ yielded = <<>>

---------------------------------------------------------------------------
(* SpecEncode: one call of sent2indices on arbitrary bounded arguments.    *)
InitEncode ==
    /\ pc = "call"
    /\ sent \in SeqsUpTo(Words, MaxSentLen)
    /\ word_index \in Vocabularies
    /\ max_l \in 0..MaxL
    /\ pad \in 0..MaxPad
    /\ x = <<>>
    /\ NoFile /\ NoPredict /\ NoKfold /\ NoTrain

Encode ==
    /\ pc = "call"
    /\ x' = sent2indices(sent, word_index, max_l, pad)
    /\ pc' = "returned"
    /\ UNCHANGED <<sent, word_index, max_l, pad, fileVars, predVars, kfVars,
                    trainVars>>

NextEncode == Encode
SpecEncode == InitEncode /\ [][NextEncode]_vars

\* C1: the list returned by sent2indices has length exactly max_l + 2*pad
\* and its first pad elements are all 0, for every sentence, vocabulary,
\* max_l >= 0 and pad >= 0 (pad >= max_l included).
C1_LengthAndLeftPad ==
    pc = "returned" =>
        /\ Len(x) = max_l + 2 * pad
        /\ \A i \in 1..pad : x[i] = 0

\* A returned encoding with pad >= max_l > 0 of a sentence that holds a
\* known word.
C1_Witness ==
    /\ pc = "returned"
    /\ pad >= max_l /\ max_l > 0
    /\ \E i \in 1..Len(sent) : sent[i] \in DOMAIN word_index

\* The indices of the in-vocabulary tokens of s, in input order.
RECURSIVE KnownIndices(_, _)
KnownIndices(s, widx) ==
    IF s = <<>> THEN <<>>
    ELSE IF Head(s) \in DOMAIN widx
         THEN <<widx[Head(s)]>> \o KnownIndices(Tail(s), widx)
         ELSE KnownIndices(Tail(s), widx)

\* C2: for a sentence with m in-vocabulary tokens the output holds exactly
\* min(m, max_l) content indices, in input order, at positions
\* pad .. pad+min(m, max_l)-1 (0-based); the limit counts content only,
\* not the left padding, and unknown tokens take no position.
C2_ContentUpToMaxL ==
    pc = "returned" =>
        LET known == KnownIndices(sent, word_index)
            k     == Min(Len(known), max_l)
        IN  /\ Len(x) >= pad + k
            /\ SubSeq(x, pad + 1, pad + k) = SubSeq(known, 1, k)
            /\ \A i \in (pad + k + 1)..Len(x) : x[i] = 0

---------------------------------------------------------------------------
(* SpecKfold: one call kfold(n_samples, folds), consumed to its end.       *)
NoEncode == /\ sent = <<>> /\ word_index = <<>> /\ max_l = 0 /\ pad = 0
            /\ x = <<>>

InitKfold ==
    /\ pc = "consume"
    /\ kpc = "start"
    /\ n_samples \in 0..MaxN
    /\ folds \in 0..MaxFolds
    /\ yielded = <<>>
    /\ NoEncode /\ NoFile /\ NoPredict /\ NoTrain

NextKfold ==
    \/ Kfold /\ UNCHANGED <<pc, encVars, fileVars, predVars, trainVars>>
SpecKfold == InitKfold /\ [][NextKfold]_vars

\* The call is over: the generator is exhausted or an error ended it.
KfoldOver == kpc \in {"finished", "SyntaxError"}

\* Number of positions of s holding v.
Count(s, v) == Cardinality({i \in 1..Len(s) : s[i] = v})

\* A yielded (train, test) pair is [kind |-> "tuple", val |-> <<train, test>>].
TrainOf(j) == yielded[j].val[1]
TestOf(j)  == yielded[j].val[2]

\* C3: one kfold(n, folds) run with folds >= 2 yields folds pairs; every
\* index of [0, n) is in the test set of exactly one pair and in the train
\* set of every other pair, no index is in both sets of a pair or twice in
\* one; each train set is the complement of its test set.
C3_TestSetsPartition ==
    (KfoldOver /\ folds >= 2) =>
        /\ Len(yielded) = folds
        /\ \A j \in 1..folds :
              /\ yielded[j].kind = "tuple"
              /\ \A i \in 1..Len(TrainOf(j)) : TrainOf(j)[i] \in 0..(n_samples - 1)
              /\ \A i \in 1..Len(TestOf(j)) : TestOf(j)[i] \in 0..(n_samples - 1)
              /\ \A v \in 0..(n_samples - 1) :
                    Count(TrainOf(j), v) + Count(TestOf(j), v) = 1
        /\ \A v \in 0..(n_samples - 1) :
              Cardinality({j \in 1..folds : Count(TestOf(j), v) = 1}) = 1

\* The range [0, n) in order.
Range(n) == [i \in 1..n |-> i - 1]

\* C4: with folds < 2 the generator yields exactly one item, a
\* (train, test) pair whose test is the whole range [0, n) and whose
\* train is empty.
C4_SinglePairAllTest ==
    (KfoldOver /\ folds < 2) =>
        /\ Len(yielded) = 1
        /\ yielded[1].kind = "tuple"
        /\ yielded[1].val = <<<<>>, Range(n_samples)>>

\* The test sets of the first j pairs, one after the other.
RECURSIVE TestsUpTo(_)
TestsUpTo(j) == IF j = 0 THEN <<>> ELSE TestsUpTo(j - 1) \o TestOf(j)

\* C10: with folds >= 2 the test sets have, in yield order, sizes
\* n div folds + 1 for the first n mod folds pairs and n div folds after;
\* each test set is a contiguous slice of one order of [0, n) (the test
\* sets laid end to end), each train set the elements of that order before
\* the slice followed by those after it.
C10_SizesAndSlices ==
    (KfoldOver /\ folds >= 2) =>
        /\ Len(yielded) = folds
        /\ LET order == TestsUpTo(folds)
           IN  /\ Len(order) = n_samples
               /\ \A j \in 1..folds :
                     LET q     == n_samples \div folds
                         r     == n_samples % folds
                         size  == IF j <= r THEN q + 1 ELSE q
                         start == (j - 1) * q + Min(j - 1, r)
                     IN  /\ Len(TestOf(j)) = size
                         /\ TestOf(j) = SubSeq(order, start + 1, start + size)
                         /\ TrainOf(j) = SubSeq(order, 1, start)
                                         \o SubSeq(order, start + size + 1,
                                                   n_samples)

---------------------------------------------------------------------------
(* SpecCorpus: one call of read_corpus on a tab-separated file.            *)

\* A record  id <TAB> tag <TAB> text <NEWLINE>.
Record(id, tag, text) == Join(<<id, tag, text>>, "\t") \o <<"\n">>

TextChars == {"a", "b", "A", " "}
CorpusLines ==
    {Record(<<"1">>, <<"p">>, t) : t \in SeqsUpTo(TextChars, MaxTextLen)}
CorpusFiles == UNION {[1..k -> CorpusLines] : k \in 1..MaxLines}
CorpusVocabularies ==
    { (<<"a", "b">> :> 1),
      (<<"a">> :> 1) @@ (<<"b">> :> 2) @@ (<<"a", "b">> :> 0) }

\* The scenario of the specification: "id\tpos\thello world\n".
HelloText  == <<"h", "e", "l", "l", "o", " ", "w", "o", "r", "l", "d">>
HelloFile  == <<Record(<<"i", "d">>, <<"p", "o", "s">>, HelloText)>>
HelloVocab == (<<"h", "e", "l", "l", "o">> :> 1) @@ (<<"w", "o", "r", "l", "d">> :> 2)

InitCorpus ==
    /\ pc = "read_corpus"
    /\ \/ /\ file \in CorpusFiles
          /\ word_index \in CorpusVocabularies
          /\ max_l \in 1..MaxL
          /\ pad \in 0..MaxPad
          /\ lower \in BOOLEAN
       \/ /\ file = HelloFile
          /\ word_index = HelloVocab
          /\ max_l = 5
          /\ pad = 1
          /\ lower \in BOOLEAN
    /\ textField = 2
    /\ corpus = <<>> /\ line_no = 0
    /\ sent = <<>> /\ x = <<>>
    /\ NoPredict /\ NoKfold /\ NoTrain

NextCorpus ==
    \/ ReadLine /\ UNCHANGED <<encVars, predVars, kfVars, trainVars>>
    \/ ReadReturn /\ UNCHANGED <<encVars, predVars, kfVars, trainVars>>
SpecCorpus == InitCorpus /\ [][NextCorpus]_vars

\* str.split(): the maximal runs of non-whitespace characters.
RECURSIVE WhitespaceSplit(_)
WhitespaceSplit(s) ==
    LET t == LStrip(s)
    IN  IF t = <<>> THEN <<>>
        ELSE LET n == IF \E k \in 1..Len(t) : IsSpace(t[k])
                      THEN (CHOOSE k \in 1..Len(t) :
                               IsSpace(t[k]) /\ \A j \in 1..(k - 1) : ~IsSpace(t[j])) - 1
                      ELSE Len(t)
             IN  <<SubSeq(t, 1, n)>> \o WhitespaceSplit(SubSeq(t, n + 1, Len(t)))

\* C5: read_corpus returns one row per record, in input order, and the row
\* of a record is sent2indices applied to the whitespace-separated words of
\* its (optionally lowercased) text field; "id\tpos\thello world" with
\* {hello:1, world:2}, max_l=5, pad=1 gives [0,1,2,0,0,0,0].
C5_RowsEncodeWords ==
    pc = "corpus_read" =>
        /\ Len(corpus) = Len(file)
        /\ \A i \in 1..Len(file) :
              LET text == FieldsOf(file[i])[textField + 1]
                  norm == IF lower THEN Lower(text) ELSE text
              IN  corpus[i] = sent2indices(WhitespaceSplit(norm),
                                           word_index, max_l, pad)
        /\ (file = HelloFile /\ word_index = HelloVocab /\ max_l = 5 /\ pad = 1)
              => corpus = << <<0, 1, 2, 0, 0, 0, 0>> >>

---------------------------------------------------------------------------
(* SpecPredict: a run of the file in inference mode on an input file.     *)
PredictLines ==
    {Record(<<"1">>, tag, t) :
        tag \in {<<"n">>, <<"p">>}, t \in SeqsUpTo({"a", " "}, MaxTextLen - 1)}
PredictFiles == UNION {[1..k -> PredictLines] : k \in 1..MaxLines}

InitPredict ==
    /\ pc = "compile"
    /\ file \in PredictFiles
    /\ lower \in BOOLEAN
    /\ textField \in 0..2
    /\ tagField \in 0..3
    /\ corpus = <<>> /\ line_no = 0
    /\ labels = <<>> /\ results = <<>> /\ stdout = <<>>
    /\ NoEncode /\ NoKfold /\ NoTrain

NextPredict ==
    \/ CompileFile
SpecPredict == InitPredict /\ [][NextPredict]_vars

\* The run is over: it left by sys.exit at line 149 or an error ended it.
RunOver == pc \in {"exit", "SyntaxError"}

\* The records on standard output: its lines, without their terminators.
OutputRecords(out) ==
    LET parts == SplitOn(out, "\n")
    IN  IF parts[Len(parts)] = <<>> THEN SubSeq(parts, 1, Len(parts) - 1)
        ELSE parts

\* The fields of an input record: the line without its terminator, cut at
\* tabs.
RecordFields(line) ==
    SplitOn(IF line # <<>> /\ line[Len(line)] = "\n"
            THEN SubSeq(line, 1, Len(line) - 1) ELSE line, "\t")

\* C7: an inference run emits exactly one record per input record, in
\* input order; the i-th, for the predicted class index y_i, has
\* labels[y_i] in the field at tagField and every other field as in the
\* i-th input record, tab-joined, whatever field tagField names, the last
\* field of the line included.
C7_OnlyTagFieldReplaced ==
    RunOver =>
        LET recs == OutputRecords(stdout)
        IN  /\ Len(recs) = Len(file)
            /\ \A i \in 1..Min(Len(file), Len(results)) :
                  SplitOn(recs[i], "\t") =
                      [RecordFields(file[i]) EXCEPT
                          ![tagField + 1] = labels[results[i] + 1]]

---------------------------------------------------------------------------
(* SpecTrain: a run of the file in training mode on an input file and      *)
(* command-line options.                                                   *)
FilterArgs == {<<"1">>, <<"2">>, <<"3", ",", "2">>}

InitTrain ==
    /\ pc = "compile"
    /\ file \in PredictFiles
    /\ lower \in BOOLEAN
    /\ textField = 2 /\ tagField = 1
    /\ args_train = TRUE
    /\ args_filters \in FilterArgs
    /\ args_cv \in 0..MaxArgCv
    /\ corpus = <<>> /\ line_no = 0
    /\ labels = <<>> /\ results = <<>> /\ stdout = <<>>
    /\ NoEncode /\ NoKfold

NextTrain ==
    \/ CompileFile
SpecTrain == InitTrain /\ [][NextTrain]_vars

=============================================================================
